---- MODULE Spec2Model ----
(***************************************************************************)
(* A model of pysb/simulator/cupsoda.py: the discovery of the cupSODA      *)
(* binary (set_cupsoda_path, _get_cupsoda_path) and the CupSodaSimulator   *)
(* adapter (run, _get_nblocks, _create_input_files, _load_trajectories).   *)
(***************************************************************************)
EXTENDS Integers, Sequences, FiniteSets, TLC

VARIABLES
    cupsoda_path,   \* the module global _cupsoda_path: None or a path
    environ,        \* os.environ.get('CUPSODAPATH'): None or a directory
    fs,             \* what the file system holds at <dir>/cupSODA
    explicit,       \* history: the directory last given to set_cupsoda_path
    lastCall,       \* history: the last call of the module and its outcome
    self,           \* the CupSodaSimulator instance: its fields
    use_pycuda,     \* the module global use_pycuda: pycuda could be imported
    device,         \* the attributes cuda.Device(gpu) reports
    pd,             \* the module global pd: pandas could be imported
    infiles,        \* the files of <outdir>/INPUT: name -> text written
    outfiles,       \* the entries of <outdir>/OUTPUT: name -> file or directory
    ret,            \* history: the last method call on self and its outcome
    pc,             \* where run() stands
    outdir,         \* self.outdir on disk: "none", "exists" or "removed"
    locals,         \* run()'s bin_path and n_blocks
    child,          \* the solver process Popen started
    stdout_pipe,    \* bytes the child wrote to stdout, not yet read
    stderr_pipe,    \* bytes the child wrote to stderr, not yet read
    linebuf,        \* the line p.stdout.readline() is assembling
    printed,        \* the lines the verbose loop printed
    p_out,          \* what communicate() has read from stdout
    p_err,          \* what communicate() has read from stderr
    stages          \* history: the steps run() has taken, in order

pathVars == <<cupsoda_path, environ, fs, explicit, lastCall>>

globalVars == <<use_pycuda, device, pd>>

dirVars == <<infiles, outfiles>>

simVars == <<self, globalVars, dirVars, ret>>

pipeVars == <<stdout_pipe, stderr_pipe, linebuf, printed, p_out, p_err>>

runVars == <<pc, outdir, locals, child, pipeVars, stages>>

vars == <<pathVars, simVars, runVars>>

None == "None"

\* an integer field that may be None: <<>> for None, <<x>> for the integer x
NoInt == <<>>
Int1(x) == <<x>>

(***************************************************************************)
(* Binary discovery                                                        *)
(***************************************************************************)

\* bin_dirs, in the order the code lists them
bin_dirs == <<"/usr/local/share/cupSODA", "c:/Program Files/cupSODA">>

\* directories a caller may name that are not standard locations
UserDirs == {"/opt/a", "/opt/b"}

Dirs == {bin_dirs[i] : i \in DOMAIN bin_dirs} \cup UserDirs

\* os.path.join(directory, 'cupSODA')
JoinBin(directory) == directory \o "/cupSODA"

BinPaths == {JoinBin(d) : d \in Dirs}

\* what may sit at a path: nothing, a directory, a regular file without or
\* with executable permission
FileKinds == {"absent", "dir", "file", "exec"}

\* os.access(path, os.F_OK)
AccessF(fsys, path) == fsys[path] # "absent"

\* os.path.isfile(path)
IsFile(fsys, path) == fsys[path] \in {"file", "exec"}

\* os.access(path, os.X_OK); a directory normally carries the search bit
AccessX(fsys, path) == fsys[path] \in {"exec", "dir"}

\* set_cupsoda_path(directory): the global is assigned first, then checked
SetPathOutcome(fsys, directory) ==
    LET p == JoinBin(directory) IN
    IF ~AccessF(fsys, p) \/ ~IsFile(fsys, p)
    THEN [raised |-> TRUE, exc |-> "SimulatorException",
          msg |-> "Could not find cupSODA binary", value |-> None, cache |-> p]
    ELSE IF ~AccessX(fsys, p)
    THEN [raised |-> TRUE, exc |-> "SimulatorException",
          msg |-> "no executable permissions", value |-> None, cache |-> p]
    ELSE [raised |-> FALSE, exc |-> None, msg |-> None, value |-> None,
          cache |-> p]

\* _check_bin_dir(bin_dir): the path, or False
check_bin_dir(fsys, bin_dir) ==
    IF AccessF(fsys, JoinBin(bin_dir)) THEN JoinBin(bin_dir) ELSE "False"

\* the loop over bin_dirs: the else belongs to the if, so a directory
\* without the binary raises at once
StdLoop(fsys, i) ==
    LET bin_path == check_bin_dir(fsys, bin_dirs[i]) IN
    IF bin_path # "False"
    THEN [raised |-> FALSE, bin_path |-> bin_path]    \* break
    ELSE [raised |-> TRUE, bin_path |-> bin_path]     \* raise

\* a discovery that searches the standard locations when the directory of
\* CUPSODAPATH holds no binary
GetPathEnvFallsThrough(cache, env, fsys) ==
    IF cache # None
    THEN [raised |-> FALSE, exc |-> None, msg |-> None, value |-> cache,
          cache |-> cache]
    ELSE LET r == IF env # None /\ check_bin_dir(fsys, env) # "False"
                  THEN [raised |-> FALSE, bin_path |-> check_bin_dir(fsys, env)]
                  ELSE StdLoop(fsys, 1) IN
         IF r.raised
         THEN [raised |-> TRUE, exc |-> "SimulatorException",
               msg |-> "Could not find cupSODA installed", value |-> None,
               cache |-> cache]
         ELSE [raised |-> FALSE, exc |-> None, msg |-> None,
               value |-> r.bin_path, cache |-> r.bin_path]

\* _get_cupsoda_path()
GetCupsodaPath(cache, env, fsys) ==
    IF cache # None
    THEN [raised |-> FALSE, exc |-> None, msg |-> None, value |-> cache,
          cache |-> cache]
    ELSE IF env # None
    THEN LET bin_path == check_bin_dir(fsys, env) IN
         IF bin_path = "False"
         THEN [raised |-> TRUE, exc |-> "SimulatorException",
               msg |-> "Environment variable CUPSODAPATH is set but",
               value |-> None, cache |-> cache]
         ELSE [raised |-> FALSE, exc |-> None, msg |-> None,
               value |-> bin_path, cache |-> bin_path]
    ELSE LET r == StdLoop(fsys, 1) IN
         IF r.raised
         THEN [raised |-> TRUE, exc |-> "SimulatorException",
               msg |-> "Could not find cupSODA installed", value |-> None,
               cache |-> cache]
         ELSE [raised |-> FALSE, exc |-> None, msg |-> None,
               value |-> r.bin_path, cache |-> r.bin_path]

NoCall == [op |-> None, arg |-> None, before |-> None, raised |-> FALSE,
           exc |-> None, msg |-> None, value |-> None]

\* an instance no method has been called on
NoRet == [op |-> None, raised |-> FALSE, exc |-> None, msg |-> None,
          value |-> None]

\* no process started
NoChild == [state |-> "none", program |-> <<>>, todo |-> <<>>, returncode |-> 0]

NoLocals == [bin_path |-> None, n_blocks |-> NoInt]

\* run() has not been called
RunIdle ==
    /\ pc = "configured" /\ outdir = "none" /\ locals = NoLocals
    /\ child = NoChild
    /\ stdout_pipe = <<>> /\ stderr_pipe = <<>> /\ linebuf = <<>>
    /\ printed = <<>> /\ p_out = <<>> /\ p_err = <<>>
    /\ stages = <<>>

InitPath ==
    /\ RunIdle
    /\ self = None /\ use_pycuda = FALSE /\ device = None /\ pd = FALSE
    /\ infiles = <<>> /\ outfiles = <<>>
    /\ ret = NoRet
    /\ cupsoda_path = None
    /\ environ \in Dirs \cup {None}
    /\ fs \in [BinPaths -> FileKinds]
    /\ explicit = None
    /\ lastCall = NoCall

\* a caller calls set_cupsoda_path(directory)
CallSetCupsodaPath(directory) ==
    LET r == SetPathOutcome(fs, directory) IN
    /\ cupsoda_path' = r.cache
    /\ explicit' = directory
    /\ lastCall' = [op |-> "set", arg |-> directory, before |-> cupsoda_path,
                    raised |-> r.raised, exc |-> r.exc, msg |-> r.msg,
                    value |-> r.value]
    /\ UNCHANGED <<environ, fs, simVars, runVars>>

\* a caller calls _get_cupsoda_path()
CallGetCupsodaPath ==
    LET r == GetCupsodaPath(cupsoda_path, environ, fs) IN
    /\ cupsoda_path' = r.cache
    /\ lastCall' = [op |-> "get", arg |-> None, before |-> cupsoda_path,
                    raised |-> r.raised, exc |-> r.exc, msg |-> r.msg,
                    value |-> r.value]
    /\ UNCHANGED <<environ, fs, explicit, simVars, runVars>>

NextPath ==
    \/ \E d \in Dirs : CallSetCupsodaPath(d)
    \/ CallGetCupsodaPath

SpecPath == InitPath /\ [][NextPath]_vars

(***************************************************************************)
(* Claims about binary discovery                                           *)
(***************************************************************************)

StdPaths == {JoinBin(bin_dirs[i]) : i \in DOMAIN bin_dirs}

\* C2: a _get_cupsoda_path call that returns, returns the path under the
\* directory given to set_cupsoda_path if one was given; else the path under
\* CUPSODAPATH if the variable is set; else a path under a standard
\* directory.  A set variable is never bypassed for a standard location.
C2_Precedence ==
    (lastCall.op = "get" /\ ~lastCall.raised) =>
        IF explicit # None THEN lastCall.value = JoinBin(explicit)
        ELSE IF environ # None THEN lastCall.value = JoinBin(environ)
        ELSE lastCall.value \in StdPaths

\* C2 witness: the variable names a non-standard directory, a standard
\* directory holds the binary too, and the call returned
C2_Witness ==
    /\ lastCall.op = "get" /\ ~lastCall.raised
    /\ explicit = None
    /\ environ \in UserDirs
    /\ fs[JoinBin(bin_dirs[1])] = "exec"
    /\ lastCall.value = JoinBin(environ)

\* C3: with no explicit path and no CUPSODAPATH, every standard directory
\* is tried in order: the call returns the binary's path if any of them
\* holds it and raises only if none does.
C3_AllStandardDirsTried ==
    (lastCall.op = "get" /\ lastCall.before = None /\ environ = None) =>
        LET holding == {i \in DOMAIN bin_dirs :
                          AccessF(fs, JoinBin(bin_dirs[i]))} IN
        IF holding = {}
        THEN lastCall.raised
        ELSE /\ ~lastCall.raised
             /\ \E i \in holding :
                   /\ lastCall.value = JoinBin(bin_dirs[i])
                   /\ \A j \in holding : i <= j

\* C4: a _get_cupsoda_path call that returns, returns the path of an
\* existing regular executable file, and otherwise raises the
\* solver-not-found error; a set_cupsoda_path call that raised does not
\* leave the path it rejected in the cache.
C4_ReturnsExecutableFile ==
    /\ lastCall.op = "get" =>
          IF lastCall.raised
          THEN lastCall.exc = "SimulatorException"
          ELSE fs[lastCall.value] = "exec"
    /\ (lastCall.op = "set" /\ lastCall.raised) =>
          cupsoda_path # JoinBin(lastCall.arg)

(***************************************************************************)
(* The simulator instance                                                  *)
(***************************************************************************)

\* CupSodaSimulator.default_integrator_options['cupsoda']; the tolerances
\* are kept as the text str() gives them
DefaultOpts ==
    [max_steps |-> 20000, atol |-> "1e-08", rtol |-> "1e-08",
     n_blocks |-> NoInt, memory_usage |-> "sharedconstant"]

\* self._out_species = None
NoOutSpecies == <<-1>>

\* the fields __init__ and Simulator.run leave on the instance.  Species,
\* reactions and parameters are those of the generated network; species
\* indices are the 0-based indices of the code.
Sim(model, tspan, initials, param_values, verbose, vol, obs_only, cleanup, opts) ==
    [model |-> model, tspan |-> tspan, initials |-> initials,
     param_values |-> param_values, verbose |-> verbose, gpu |-> 0,
     vol |-> vol, obs_species_only |-> obs_only,
     cleanup |-> cleanup, prefix |-> "model", opts |-> opts,
     out_species |-> NoOutSpecies]

\* names of species: a model may hold the source pseudo-species
SpeciesNames == <<"A()", "B()", "__source()">>

\* a network of n species with no reaction, observable or parameter
BareModel(n) ==
    [species |-> [i \in 1..n |-> SpeciesNames[i]], reactions |-> <<>>,
     observables |-> <<>>, parameters |-> <<>>, parameters_rules |-> <<>>]

(***************************************************************************)
(* _get_nblocks                                                            *)
(***************************************************************************)

default_threads_per_block == 32
bytes_per_float == 4

Min(a, b) == IF a <= b THEN a ELSE b

\* int(np.ceil(1. * n / d)) for d > 0
CeilDiv(n, d) == IF n % d = 0 THEN n \div d ELSE (n \div d) + 1

\* _get_nblocks(gpu): the quotient of the two device integers is Python 2's
\* integer quotient, and dividing by a threads_per_block of 0 raises
GetNblocks(s, pycuda, dev) ==
    LET n_blocks == s.opts.n_blocks IN
    IF n_blocks # NoInt
    THEN [op |-> "_get_nblocks", raised |-> FALSE, exc |-> None,
          msg |-> None, value |-> n_blocks, threads_per_block |-> NoInt]
    ELSE LET memory_per_thread == (Len(s.model.species) + 1) * bytes_per_float
             threads_per_block ==
                 IF ~pycuda
                 THEN default_threads_per_block
                 ELSE Min(Min(dev.MAX_SHARED_MEMORY_PER_BLOCK
                                  \div memory_per_thread,
                              dev.MAX_THREADS_PER_BLOCK),
                          default_threads_per_block) IN
         IF threads_per_block = 0
         THEN [op |-> "_get_nblocks", raised |-> TRUE,
               exc |-> "ZeroDivisionError", msg |-> "float division by zero",
               value |-> NoInt, threads_per_block |-> Int1(threads_per_block)]
         ELSE [op |-> "_get_nblocks", raised |-> FALSE, exc |-> None,
               msg |-> None,
               value |-> Int1(CeilDiv(Len(s.param_values), threads_per_block)),
               threads_per_block |-> Int1(threads_per_block)]

\* bounds of the block planner's inputs
MaxSimsBlocks == 66
MaxSpeciesBlocks == 2
SharedMemChoices == {8, 64, 49152}
MaxThreadsChoices == {4, 1024}
NBlocksChoices == {NoInt, Int1(3)}

NoDevice == [MAX_SHARED_MEMORY_PER_BLOCK |-> 0, MAX_THREADS_PER_BLOCK |-> 0]

PathIdle ==
    /\ cupsoda_path = None /\ environ = None
    /\ fs = [p \in BinPaths |-> "absent"]
    /\ explicit = None /\ lastCall = NoCall

InitBlocks ==
    /\ PathIdle /\ RunIdle
    /\ \E n \in 1..MaxSimsBlocks, k \in 1..MaxSpeciesBlocks,
          nb \in NBlocksChoices :
          self = Sim(BareModel(k), <<0, 1>>, [i \in 1..n |-> [j \in 1..k |-> 0]],
                     [i \in 1..n |-> <<>>], FALSE, NoInt, TRUE, TRUE,
                     [DefaultOpts EXCEPT !.n_blocks = nb])
    /\ use_pycuda \in BOOLEAN
    /\ IF use_pycuda
       THEN device \in [MAX_SHARED_MEMORY_PER_BLOCK : SharedMemChoices,
                        MAX_THREADS_PER_BLOCK : MaxThreadsChoices]
       ELSE device = NoDevice
    /\ pd = FALSE
    /\ infiles = <<>> /\ outfiles = <<>>
    /\ ret = NoRet

\* a caller calls self._get_nblocks(self.gpu)
CallGetNblocks ==
    /\ ret' = GetNblocks(self, use_pycuda, device)
    /\ UNCHANGED <<self, globalVars, dirVars, pathVars, runVars>>

NextBlocks == CallGetNblocks

SpecBlocks == InitBlocks /\ [][NextBlocks]_vars

\* C9: with no block count configured, _get_nblocks does not fail and
\* returns blocks = ceiling(n_sims / threads_per_block), so that
\* blocks * threads_per_block >= n_sims, for every species count and every
\* device capability; without pycuda threads_per_block is 32.
C9_BlocksCoverSims ==
    (ret.op = "_get_nblocks" /\ self.opts.n_blocks = NoInt) =>
        /\ ~ret.raised
        /\ ret.value[1] * ret.threads_per_block[1] >= Len(self.param_values)
        /\ (ret.value[1] - 1) * ret.threads_per_block[1]
               < Len(self.param_values)
        /\ ~use_pycuda => ret.threads_per_block[1] = 32

(***************************************************************************)
(* _get_cmatrix                                                            *)
(***************************************************************************)

\* a number of the adapter, kept exact: c * (N_A * vol) ^ e
Num(c, e) == [c |-> c, e |-> e]

\* the truth value of self.vol
Truthy(vol) == vol # NoInt /\ vol[1] # 0

\* re.match("_*s", str(arg)): underscores, then an s, at the start of the
\* name (a name is the sequence of its characters)
RECURSIVE MatchUnderscoresS(_, _)
MatchUnderscoresS(name, i) ==
    IF i > Len(name) THEN FALSE
    ELSE IF name[i] = "s" THEN TRUE
    ELSE IF name[i] = "_" THEN MatchUnderscoresS(name, i + 1)
    ELSE FALSE

NotSpeciesArg(arg) == ~MatchUnderscoresS(arg, 1)

\* rate_args of one reaction: the arguments of its rate expression that
\* the pattern does not match
RateArgs(rxn) == SelectSeq(rxn.rate, NotSpeciesArg)

\* rate_order of one reaction: its reactants other than __source()
RateOrder(s, rxn) ==
    Cardinality({k \in DOMAIN rxn.reactants :
                   s.model.species[rxn.reactants[k] + 1] # "__source()"})

\* par_vals[i]: the columns of param_values[i] that rate_mask selects
ParVals(s, i) ==
    LET P == s.model.parameters
        R == {s.model.parameters_rules[k] : k \in DOMAIN s.model.parameters_rules}
        InRules(k) == P[k] \in R
        idx == SelectSeq([k \in 1..Len(P) |-> k], InRules) IN
    [m \in 1..Len(idx) |-> s.param_values[i][idx[m]]]

\* par_dict[x] (0-based in the code, 1-based here)
ParDict(par_names, x) == CHOOSE k \in DOMAIN par_names : par_names[k] = x

DigitChars == {"0", "1", "2", "3", "4", "5", "6", "7", "8", "9"}

\* whether float(x) succeeds, and its value (literals of one digit)
IsNumber(x) == Len(x) = 1 /\ x[1] \in DigitChars
FloatOf(x) == CHOOSE d \in 0..9 : ToString(d) = x[1]

\* the loop over rate_args[j]: rate = 1.0, multiplied by each argument
RECURSIVE RateLoop(_, _, _, _, _)
RateLoop(args, k, rate, par_names, par_row) ==
    IF k > Len(args) THEN [raised |-> FALSE, rate |-> rate]
    ELSE LET x == args[k] IN
         IF \E m \in DOMAIN par_names : par_names[m] = x
         THEN RateLoop(args, k + 1, rate * par_row[ParDict(par_names, x)],
                       par_names, par_row)
         ELSE IF IsNumber(x)
         THEN RateLoop(args, k + 1, rate * FloatOf(x), par_names, par_row)
         ELSE [raised |-> TRUE, rate |-> rate]

\* _get_cmatrix()
GetCmatrix(s) ==
    LET par_names == s.model.parameters_rules
        rxns == s.model.reactions
        cell(i, j) == RateLoop(RateArgs(rxns[j]), 1, 1, par_names, ParVals(s, i))
        vexp(j) == IF Truthy(s.vol) THEN RateOrder(s, rxns[j]) - 1 ELSE 0 IN
    IF \E i \in DOMAIN s.param_values, j \in DOMAIN rxns : cell(i, j).raised
    THEN [raised |-> TRUE, exc |-> "ValueError",
          msg |-> "could not convert string to float", c_matrix |-> <<>>]
    ELSE [raised |-> FALSE, exc |-> None, msg |-> None,
          c_matrix |-> [i \in DOMAIN s.param_values |->
                          [j \in DOMAIN rxns |-> Num(cell(i, j).rate, vexp(j))]]]

(***************************************************************************)
(* _create_input_files                                                     *)
(***************************************************************************)

\* str() of a float with an integral value, and of a number of the adapter
StrFloat(t) == ToString(t) \o ".0"
StrNum(x) ==
    IF x.e = 0 THEN StrFloat(x.c)
    ELSE StrFloat(x.c) \o "*(N_A*vol)^" \o ToString(x.e)

\* a text is the sequence of the pieces written: values, "\t" and "\n"
RECURSIVE Flatten(_)
Flatten(seqs) == IF seqs = <<>> THEN <<>> ELSE Head(seqs) \o Flatten(Tail(seqs))

\* line = "": if j > 0: line += "\t"; line += cell
Line(cells) ==
    Flatten([j \in 1..Len(cells) |->
               IF j > 1 THEN <<"\t", cells[j]>> ELSE <<cells[j]>>])

\* write(line); if i < n - 1: write("\n")
RowsNewlineAfterButLast(lines) ==
    Flatten([i \in 1..Len(lines) |->
               IF i < Len(lines) THEN lines[i] \o <<"\n">> ELSE lines[i]])

\* if i > 0: write("\n"); write(line)
RowsNewlineBeforeButFirst(lines) ==
    Flatten([i \in 1..Len(lines) |->
               IF i > 1 THEN <<"\n">> \o lines[i] ELSE lines[i]])

\* write(line + "\n") for every row
RowsNewlineAfterEach(lines) ==
    Flatten([i \in 1..Len(lines) |-> lines[i] \o <<"\n">>])

LenSpecies(s) == Len(s.model.species)
LenRxns(s) == Len(s.model.reactions)
NSims(s) == Len(s.param_values)

AtolVectorText(s) ==
    RowsNewlineAfterButLast([i \in 1..LenSpecies(s) |-> <<s.opts.atol>>])

CMatrixText(s, cmtx) ==
    RowsNewlineAfterButLast(
        [i \in 1..NSims(s) |->
           Line([j \in 1..LenRxns(s) |-> StrNum(cmtx[i][j])])])

\* the loops over the observables: _out_species[i] = True
RECURSIVE MarkSpecies(_, _, _)
MarkSpecies(mask, species, k) ==
    IF k > Len(species) THEN mask
    ELSE MarkSpecies([mask EXCEPT ![species[k] + 1] = TRUE], species, k + 1)

RECURSIVE MarkObservables(_, _, _)
MarkObservables(mask, observables, k) ==
    IF k > Len(observables) THEN mask
    ELSE MarkObservables(MarkSpecies(mask, observables[k].species, 1),
                         observables, k + 1)

\* range(n)
Range(n) == [i \in 1..n |-> i - 1]

\* a selector that marks only the first species of each observable
OutSpeciesFirstOfEach(s) ==
    IF s.obs_species_only
    THEN LET mask == [i \in 1..LenSpecies(s) |->
                        \E k \in DOMAIN s.model.observables :
                            s.model.observables[k].species[1] = i - 1]
             Marked(i) == mask[i + 1] IN
         SelectSeq(Range(LenSpecies(s)), Marked)
    ELSE Range(LenSpecies(s))

\* self._out_species as the cs_vector block computes it
OutSpecies(s) ==
    IF s.obs_species_only
    THEN LET mask == MarkObservables([i \in 1..LenSpecies(s) |-> FALSE],
                                     s.model.observables, 1)
             Marked(i) == mask[i + 1] IN
         SelectSeq(Range(LenSpecies(s)), Marked)
    ELSE Range(LenSpecies(s))

CsVectorText(out_species) ==
    RowsNewlineBeforeButFirst(
        [i \in 1..Len(out_species) |-> <<ToString(out_species[i])>>])

\* stoich: the occurrences of species j among the indices
Stoich(indices, j) == Cardinality({k \in DOMAIN indices : indices[k] = j})

LeftSideText(s) ==
    RowsNewlineAfterButLast(
        [i \in 1..LenRxns(s) |->
           Line([j \in 1..LenSpecies(s) |->
                   ToString(Stoich(s.model.reactions[i].reactants, j - 1))])])

RightSideText(s) ==
    RowsNewlineAfterButLast(
        [i \in 1..LenRxns(s) |->
           Line([j \in 1..LenSpecies(s) |->
                   ToString(Stoich(s.model.reactions[i].products, j - 1))])])

MaxStepsText(s) == <<ToString(s.opts.max_steps)>>

ModelKindText == <<"deterministic">>

\* an encoding that writes the initials as they are, whatever the volume
Mx0Unscaled(s) ==
    [i \in 1..Len(s.initials) |->
       [j \in 1..Len(s.initials[i]) |-> Num(s.initials[i][j], 0)]]

\* mx0: the initials, divided by N_A * vol when a volume is set, the column
\* of the first __source() species then set to 1
Mx0(s) ==
    LET sources == {j \in 1..LenSpecies(s) : s.model.species[j] = "__source()"}
        first == IF sources = {} THEN 0
                 ELSE CHOOSE j \in sources : \A k \in sources : j <= k IN
    [i \in 1..Len(s.initials) |->
       [j \in 1..Len(s.initials[i]) |->
          IF Truthy(s.vol)
          THEN IF j = first THEN Num(1, 0) ELSE Num(s.initials[i][j], -1)
          ELSE Num(s.initials[i][j], 0)]]

MX0Text(s) ==
    RowsNewlineAfterButLast(
        [i \in 1..NSims(s) |->
           Line([j \in 1..LenSpecies(s) |-> StrNum(Mx0(s)[i][j])])])

RtolText(s) == <<s.opts.rtol>>

TVectorText(s) ==
    RowsNewlineAfterEach([i \in 1..Len(s.tspan) |-> <<StrFloat(s.tspan[i])>>])

TimeMaxText(s) == <<StrFloat(s.tspan[Len(s.tspan)])>>

\* the files in the order _create_input_files opens them
InputFileNames ==
    <<"atol_vector", "c_matrix", "cs_vector", "left_side", "max_steps",
      "modelkind", "MX_0", "right_side", "rtol", "t_vector", "time_max">>

\* _create_input_files(dir): the files it leaves and self._out_species.
\* c_matrix is opened before _get_cmatrix runs, so an error there leaves
\* atol_vector and an empty c_matrix.
CreateInputFiles(s) ==
    LET cm == GetCmatrix(s)
        out == OutSpecies(s) IN
    IF cm.raised
    THEN [op |-> "_create_input_files", raised |-> TRUE, exc |-> cm.exc,
          msg |-> cm.msg, out_species |-> s.out_species,
          files |-> ("atol_vector" :> AtolVectorText(s))
                    @@ ("c_matrix" :> <<>>)]
    ELSE [op |-> "_create_input_files", raised |-> FALSE, exc |-> None,
          msg |-> None, out_species |-> out,
          files |-> ("atol_vector" :> AtolVectorText(s))
                    @@ ("c_matrix" :> CMatrixText(s, cm.c_matrix))
                    @@ ("cs_vector" :> CsVectorText(out))
                    @@ ("left_side" :> LeftSideText(s))
                    @@ ("max_steps" :> MaxStepsText(s))
                    @@ ("modelkind" :> ModelKindText)
                    @@ ("MX_0" :> MX0Text(s))
                    @@ ("right_side" :> RightSideText(s))
                    @@ ("rtol" :> RtolText(s))
                    @@ ("t_vector" :> TVectorText(s))
                    @@ ("time_max" :> TimeMaxText(s))]

(***************************************************************************)
(* The networks and simulation sets _create_input_files is run on          *)
(***************************************************************************)

MaxSpecies == 2
MaxRxns == 2
MaxObs == 2
MaxSims == 2
MaxTspan == 2

\* names, as the sequences of their characters: two rate parameters (one
\* whose name begins with s), an initial-condition parameter, an expression
N_kf == <<"k", "f">>
N_sig == <<"s", "i", "g">>
N_A0 == <<"A", "_", "0">>
N_expr == <<"e", "x">>

\* the symbol of species i in a rate expression
SpeciesSymbol(i) == <<"_", "_", "s", ToString(i)>>

ModelParameters == <<N_kf, N_A0, N_sig>>
ModelParametersRules == <<N_kf, N_sig>>

\* param_values[i] and initials[i] of simulation i
ParamRow(i) == <<2 * i + 1, 100, 2 * i + 5>>
InitialsRow(i, n) == [j \in 1..n |-> 10 * i + j]

\* injective sequences over SpeciesNames: the species of a network
SpeciesLists ==
    UNION {{sp \in [1..n -> {SpeciesNames[k] : k \in DOMAIN SpeciesNames}] :
              \A a, b \in 1..n : a # b => sp[a] # sp[b]} : n \in 1..MaxSpecies}

\* reactions over n species: unimolecular, bimolecular, one with a literal
\* factor, one whose rate names an expression
RxnChoices(n) ==
    {[reactants |-> <<0>>, products |-> <<n - 1>>,
      rate |-> <<N_kf, SpeciesSymbol(0)>>],
     [reactants |-> <<0, n - 1>>, products |-> <<0>>,
      rate |-> <<N_sig, SpeciesSymbol(0), SpeciesSymbol(n - 1)>>],
     [reactants |-> <<n - 1, n - 1>>, products |-> <<>>,
      rate |-> <<<<"2">>, N_kf, SpeciesSymbol(n - 1)>>],
     [reactants |-> <<n - 1>>, products |-> <<0, 0>>,
      rate |-> <<N_expr, SpeciesSymbol(n - 1)>>]}

DefaultRxns(n) ==
    <<[reactants |-> <<0>>, products |-> <<n - 1>>,
       rate |-> <<N_kf, SpeciesSymbol(0)>>]>>

RxnLists(n) == UNION {[1..m -> RxnChoices(n)] : m \in 1..MaxRxns}

\* an observable lists one or two distinct species, in any order
ObsChoices(n) ==
    {[species |-> <<i>>] : i \in 0..(n - 1)}
    \cup {[species |-> <<p[1], p[2]>>] :
            p \in {q \in (0..(n - 1)) \X (0..(n - 1)) : q[1] # q[2]}}

DefaultObs == <<[species |-> <<0>>]>>

ObsLists(n) == UNION {[1..m -> ObsChoices(n)] : m \in 0..MaxObs}

VolChoices == {NoInt, Int1(0), Int1(2)}

Network(species, reactions, observables) ==
    [species |-> species, reactions |-> reactions, observables |-> observables,
     parameters |-> ModelParameters, parameters_rules |-> ModelParametersRules]

\* the instances: every species list with the observables and the mode
\* varied, and every species list with the reactions, the time span, the
\* number of simulations and the volume varied
SelectorNetworks ==
    UNION {{Network(sp, DefaultRxns(Len(sp)), obs) : obs \in ObsLists(Len(sp))} :
           sp \in SpeciesLists}

EncodingNetworks ==
    UNION {{Network(sp, rx, DefaultObs) : rx \in RxnLists(Len(sp))} :
           sp \in SpeciesLists}

SimOf(net, t, n, v, oo) ==
    Sim(net, [k \in 1..t |-> k - 1],
        [i \in 1..n |-> InitialsRow(i, Len(net.species))],
        [i \in 1..n |-> ParamRow(i)], FALSE, v, oo, TRUE, DefaultOpts)

FileSims ==
    {SimOf(net, MaxTspan, MaxSims, NoInt, oo) :
       net \in SelectorNetworks, oo \in BOOLEAN}
    \cup {SimOf(net, t, n, v, TRUE) :
            net \in EncodingNetworks, t \in 1..MaxTspan, n \in 1..MaxSims,
            v \in VolChoices}

InitFiles ==
    /\ PathIdle /\ RunIdle
    /\ self \in FileSims
    /\ use_pycuda = FALSE /\ device = NoDevice /\ pd = FALSE
    /\ infiles = <<>> /\ outfiles = <<>>
    /\ ret = NoRet

\* a caller calls self._create_input_files(dir) on an empty directory
CallCreateInputFiles ==
    LET r == CreateInputFiles(self) IN
    /\ ret.op = None
    /\ self' = [self EXCEPT !.out_species = r.out_species]
    /\ infiles' = r.files
    /\ ret' = [op |-> r.op, raised |-> r.raised, exc |-> r.exc,
               msg |-> r.msg, value |-> None]
    /\ UNCHANGED <<globalVars, outfiles, pathVars, runVars>>

NextFiles == CallCreateInputFiles

SpecFiles == InitFiles /\ [][NextFiles]_vars

(***************************************************************************)
(* Claims about the input files                                            *)
(***************************************************************************)

\* text.split(sep) of a text that is not empty
RECURSIVE SplitOn(_, _)
SplitOn(text, sep) ==
    IF \A k \in DOMAIN text : text[k] # sep THEN <<text>>
    ELSE LET k == CHOOSE a \in DOMAIN text :
                    text[a] = sep /\ \A b \in 1..(a - 1) : text[b] # sep IN
         <<SubSeq(text, 1, k - 1)>> \o SplitOn(SubSeq(text, k + 1, Len(text)), sep)

\* the rows of a file: the pieces between its newlines
RowsOf(text) == IF text = <<>> THEN <<>> ELSE SplitOn(text, "\n")

\* the species some observable refers to
ObservedSpecies(s) ==
    {i \in 0..(LenSpecies(s) - 1) :
       \E k \in DOMAIN s.model.observables :
          \E m \in DOMAIN s.model.observables[k].species :
             s.model.observables[k].species[m] = i}

\* C7: after _create_input_files the selector lists, once each and in
\* ascending order, exactly the species some observable refers to when
\* obs_species_only is on and exactly 0..n_species-1 when it is off, and
\* cs_vector holds those indices, one a row.
C7_OutputSpeciesSelector ==
    (ret.op = "_create_input_files" /\ ~ret.raised) =>
        LET out == self.out_species IN
        /\ \A a, b \in DOMAIN out : a < b => out[a] < out[b]
        /\ {out[a] : a \in DOMAIN out} =
              IF self.obs_species_only THEN ObservedSpecies(self)
              ELSE 0..(LenSpecies(self) - 1)
        /\ RowsOf(infiles["cs_vector"]) =
              [a \in DOMAIN out |-> <<ToString(out[a])>>]

\* C7 witness: two observables that overlap, the first listing its species
\* in descending order, in observables-only mode
C7_Witness ==
    /\ ret.op = "_create_input_files" /\ ~ret.raised
    /\ self.obs_species_only
    /\ Len(self.model.observables) = 2
    /\ self.model.observables[1].species = <<1, 0>>
    /\ self.model.observables[2].species = <<1>>
    /\ self.out_species = <<0, 1>>
    /\ infiles["cs_vector"] = <<"0", "\n", "1">>

IsSeparator(x) == x \in {"\n", "\t"}

\* separators stand only between two values: none leads, trails or repeats
SeparatorsOnlyBetween(text) ==
    \A k \in DOMAIN text :
       IsSeparator(text[k]) =>
          /\ 1 < k /\ k < Len(text)
          /\ ~IsSeparator(text[k - 1]) /\ ~IsSeparator(text[k + 1])

\* C10: every input file _create_input_files writes has its rows separated
\* by a newline and its columns by a tab, with no newline after the final
\* row.
C10_NoTrailingNewline ==
    ret.op = "_create_input_files" =>
        \A f \in DOMAIN infiles : SeparatorsOnlyBetween(infiles[f])

\* the same of every file but t_vector
AllButTVectorWellLaid ==
    ret.op = "_create_input_files" =>
        \A f \in DOMAIN infiles \ {"t_vector"} : SeparatorsOnlyBetween(infiles[f])


(***************************************************************************)
(* _load_trajectories                                                      *)
(***************************************************************************)

\* a file name is kept as its first len(prefix) characters and the rest, so
\* that re.match(self._prefix, filename) can be computed
FileName(head, tail) == [head |-> head, tail |-> tail]

\* re.match(self._prefix, filename)
MatchPrefix(s, name) == name.head = s.prefix

\* indir_prefix + "_" + str(n), within dir
OutputName(s, n) == FileName(s.prefix, "_" \o ToString(n))

\* os.path.isfile(filename)
IsRegularFile(dir, name) == name \in DOMAIN dir /\ dir[name].kind = "file"

\* a cell of a trajectory: not-a-number, or the number c * (N_A * vol) ^ e
NaN == [nan |-> TRUE, c |-> 0, e |-> 0]
Val(c, e) == [nan |-> FALSE, c |-> c, e |-> e]

\* traj_n.copy(): len_tspan rows of len_species not-a-numbers
TrajNaN(s) == [t \in 1..Len(s.tspan) |-> [j \in 1..LenSpecies(s) |-> NaN]]

\* a store that fills the columns from the left, whatever the selector names
StoreDataLeftmost(traj, out_species, data) ==
    [t \in DOMAIN traj |->
       [j \in DOMAIN traj[t] |->
          IF j <= Len(out_species) THEN Val(data[t][j + 1], 0) ELSE traj[t][j]]]

\* trajectories[n][:, self._out_species] = data[:, 1:]
StoreData(traj, out_species, data) ==
    [t \in DOMAIN traj |->
       [j \in DOMAIN traj[t] |->
          IF \E k \in DOMAIN out_species : out_species[k] = j - 1
          THEN LET k == CHOOSE a \in DOMAIN out_species : out_species[a] = j - 1
               IN Val(data[t][k + 1], 0)
          ELSE traj[t][j]]]

\* trajectories[n][:, self._out_species] *= (N_A * self.vol)
VolumeCorrect(traj, out_species) ==
    [t \in DOMAIN traj |->
       [j \in DOMAIN traj[t] |->
          IF (\E k \in DOMAIN out_species : out_species[k] = j - 1)
             /\ ~traj[t][j].nan
          THEN Val(traj[t][j].c, traj[t][j].e + 1)
          ELSE traj[t][j]]]

\* the reads of file n: _test_pandas reads the first file with open() and,
\* when pandas is there, with pandas too; the others are read once
ReadsOf(name, n, pandas) ==
    IF n = 0 /\ pandas THEN <<name, name>> ELSE <<name>>

\* the loop over range(n_sims), from simulation n on
RECURSIVE LoadLoop(_, _, _, _, _, _)
LoadLoop(s, dir, pandas, n, n_sims, acc) ==
    IF n >= n_sims
    THEN [op |-> "_load_trajectories", raised |-> FALSE, exc |-> None,
          msg |-> None, tout |-> acc.tout, trajectories |-> acc.trajectories,
          reads |-> acc.reads]
    ELSE LET filename == OutputName(s, n) IN
         IF ~IsRegularFile(dir, filename)
         THEN [op |-> "_load_trajectories", raised |-> TRUE,
               exc |-> "Exception", msg |-> "Cannot find input file",
               tout |-> <<>>, trajectories |-> <<>>, reads |-> acc.reads]
         ELSE LET data == dir[filename].data
                  stored == StoreData(TrajNaN(s), s.out_species, data)
                  traj == IF Truthy(s.vol)
                          THEN VolumeCorrect(stored, s.out_species)
                          ELSE stored IN
              LoadLoop(s, dir, pandas, n + 1, n_sims,
                       [tout |-> Append(acc.tout,
                                        [t \in DOMAIN data |-> data[t][1]]),
                        trajectories |-> Append(acc.trajectories, traj),
                        reads |-> acc.reads \o ReadsOf(filename, n, pandas)])

\* the names os.listdir(dir) gives that the prefix matches
MatchingFiles(s, dir) == {name \in DOMAIN dir : MatchPrefix(s, name)}

\* a check of the number of files that lets every number pass
CountMismatchNever(s, files) == FALSE

\* len(files) != len(self.param_values)
CountMismatch(s, files) == Cardinality(files) # Len(s.param_values)

\* _load_trajectories(dir)
LoadTrajectories(s, dir, pandas) ==
    LET files == MatchingFiles(s, dir) IN
    IF Cardinality(files) = 0
    THEN [op |-> "_load_trajectories", raised |-> TRUE,
          exc |-> "SimulatorException",
          msg |-> "Cannot find any output files to load data from.",
          tout |-> <<>>, trajectories |-> <<>>, reads |-> <<>>]
    ELSE IF CountMismatch(s, files)
    THEN [op |-> "_load_trajectories", raised |-> TRUE,
          exc |-> "SimulatorException",
          msg |-> "Number of input files does not match number of requested simulations",
          tout |-> <<>>, trajectories |-> <<>>, reads |-> <<>>]
    ELSE LoadLoop(s, dir, pandas, 0, Cardinality(files),
                  [tout |-> <<>>, trajectories |-> <<>>, reads |-> <<>>])

\* what the solver writes to <prefix>_<n>: a row per time point, the time
\* first, then a column per selected species
SolverData(s, n) ==
    [t \in 1..Len(s.tspan) |->
       [c \in 1..(Len(s.out_species) + 1) |->
          IF c = 1 THEN s.tspan[t] ELSE 1000 * (n + 1) + 100 * t + (c - 1)]]

\* the names an output directory may hold: the expected ones, one index
\* further, a stray file the prefix matches and one it does not
OutNames(s) ==
    {OutputName(s, n) : n \in 0..MaxSims}
    \cup {FileName(s.prefix, ".log"), FileName("other", "_0")}

EntryOf(s, name, kind) ==
    [kind |-> kind,
     data |-> IF kind = "file" /\ \E n \in 0..MaxSims : name = OutputName(s, n)
              THEN SolverData(s, CHOOSE n \in 0..MaxSims : name = OutputName(s, n))
              ELSE <<>>]

\* every directory over those names, each entry a file or a directory
OutDirs(s) ==
    UNION {{[name \in S |-> EntryOf(s, name, kinds[name])] :
              kinds \in [S -> {"file", "dir"}]} : S \in SUBSET OutNames(s)}

\* the directory of a solver run that wrote every file
CompleteOutDir(s) ==
    [name \in {OutputName(s, n) : n \in 0..(NSims(s) - 1)} |->
       EntryOf(s, name, "file")]

\* the instance as _create_input_files leaves it
AfterCreateInputFiles(s) == [s EXCEPT !.out_species = OutSpecies(s)]

SingleObsNetworks ==
    UNION {{Network(sp, DefaultRxns(Len(sp)), <<ob>>) : ob \in ObsChoices(Len(sp))} :
           sp \in SpeciesLists}

\* the instances whose outputs are loaded: with every output directory, and
\* with the complete directory under every selector, volume and time span
InitLoad ==
    /\ PathIdle /\ RunIdle
    /\ use_pycuda = FALSE /\ device = NoDevice /\ pd \in BOOLEAN
    /\ infiles = <<>>
    /\ ret = NoRet
    /\ \/ /\ \E n \in 1..MaxSims :
               self = AfterCreateInputFiles(
                          SimOf(Network(<<"A()", "B()">>, DefaultRxns(2), DefaultObs),
                                MaxTspan, n, NoInt, TRUE))
          /\ outfiles \in OutDirs(self)
       \/ /\ \/ \E net \in SelectorNetworks, oo \in BOOLEAN :
                  self = AfterCreateInputFiles(
                             SimOf(net, MaxTspan, MaxSims, NoInt, oo))
             \/ \E net \in SingleObsNetworks, t \in 1..MaxTspan,
                   n \in 1..MaxSims, v \in VolChoices, oo \in BOOLEAN :
                  self = AfterCreateInputFiles(SimOf(net, t, n, v, oo))
          /\ outfiles = CompleteOutDir(self)

\* a caller calls self._load_trajectories(dir)
CallLoadTrajectories ==
    /\ ret.op = None
    /\ ret' = LoadTrajectories(self, outfiles, pd)
    /\ UNCHANGED <<self, globalVars, dirVars, pathVars, runVars>>

NextLoad == CallLoadTrajectories

SpecLoad == InitLoad /\ [][NextLoad]_vars

(***************************************************************************)
(* Claims about the output files                                           *)
(***************************************************************************)

\* the messages of the errors that report missing output
MissingOutputMessages ==
    {"Cannot find any output files to load data from.",
     "Number of input files does not match number of requested simulations",
     "Cannot find input file"}

CellsAsSelected(e) ==
    \A n \in 1..NSims(self), t \in 1..Len(self.tspan),
       j \in 0..(LenSpecies(self) - 1) :
        LET cell == ret.trajectories[n][t][j + 1]
            out == self.out_species
            data == outfiles[OutputName(self, n - 1)].data IN
        IF \E k \in DOMAIN out : out[k] = j
        THEN \A k \in DOMAIN out :
                out[k] = j => cell = Val(data[t][k + 1], e)
        ELSE cell = NaN

\* C8 as stated: every decoded trajectory has not-a-number in the column
\* of every species the selector does not list, and in the column of the
\* k-th selector entry the value of data column k+1 of <prefix>_<n>.
C8_SelectedColumnsAsRead ==
    (ret.op = "_load_trajectories" /\ ~ret.raised) => CellsAsSelected(0)

\* C8 as amended: ... the value of data column k+1 of <prefix>_<n>,
\* multiplied by N_A * vol when a volume is configured.
C8_SelectedColumnsScaled ==
    (ret.op = "_load_trajectories" /\ ~ret.raised) =>
        CellsAsSelected(IF Truthy(self.vol) THEN 1 ELSE 0)

\* C8 witness: two species, the selector lists the second alone, a volume
\* is configured, and the load returned
C8_Witness ==
    /\ ret.op = "_load_trajectories" /\ ~ret.raised
    /\ LenSpecies(self) = 2 /\ self.out_species = <<1>>
    /\ Truthy(self.vol)
    /\ ret.trajectories[1][1][1] = NaN
    /\ ret.trajectories[1][1][2] =
          Val(outfiles[OutputName(self, 0)].data[1][2], 1)

(***************************************************************************)
(* CupSodaSimulator.run                                                    *)
(***************************************************************************)

\* CupSodaSimulator._memory_options
memory_options == ("global" :> "0") @@ ("shared" :> "1") @@ ("sharedconstant" :> "2")

\* the _memory_usage property
MemoryUsage(s) ==
    IF s.opts.memory_usage \in DOMAIN memory_options
    THEN [raised |-> FALSE, exc |-> None, msg |-> None,
          value |-> memory_options[s.opts.memory_usage]]
    ELSE [raised |-> TRUE, exc |-> "Exception",
          msg |-> "memory_usage must be one of %s", value |-> None]

\* text.rstrip(chars)
RECURSIVE Rstrip(_, _)
Rstrip(text, chars) ==
    IF text # <<>> /\ text[Len(text)] \in chars
    THEN Rstrip(SubSeq(text, 1, Len(text) - 1), chars)
    ELSE text

\* the characters of the argument of p_out.rstrip("at line")
AtLineChars == {"a", "t", " ", "l", "i", "n", "e"}

\* what rstrip() strips when it has no argument
Whitespace == {" ", "\t", "\n", "\r"}

\* p_out.rstrip("at line") + "\n" + p_err.rstrip()
ErrorMessage(out, err) ==
    Rstrip(out, AtLineChars) \o <<"\n">> \o Rstrip(err, Whitespace)

\* the text the first file _create_input_files has not opened yet gets
NextInputFile == InputFileNames[Cardinality(DOMAIN infiles) + 1]

InputFileText(s, name) ==
    CASE name = "atol_vector" -> AtolVectorText(s)
      [] name = "c_matrix" -> CMatrixText(s, GetCmatrix(s).c_matrix)
      [] name = "cs_vector" -> CsVectorText(OutSpecies(s))
      [] name = "left_side" -> LeftSideText(s)
      [] name = "max_steps" -> MaxStepsText(s)
      [] name = "modelkind" -> ModelKindText
      [] name = "MX_0" -> MX0Text(s)
      [] name = "right_side" -> RightSideText(s)
      [] name = "rtol" -> RtolText(s)
      [] name = "t_vector" -> TVectorText(s)
      [] name = "time_max" -> TimeMaxText(s)

\* the outcome of a run() that raised, and of one that returned
Raised(exc, msg, reads) ==
    [op |-> "run", raised |-> TRUE, exc |-> exc, msg |-> msg, value |-> None,
     tout |-> <<>>, trajectories |-> <<>>, reads |-> reads]

Returned(loaded) ==
    [op |-> "run", raised |-> FALSE, exc |-> None, msg |-> None,
     value |-> "SimulationResult", tout |-> loaded.tout,
     trajectories |-> loaded.trajectories, reads |-> loaded.reads]

NoRun ==
    [op |-> None, raised |-> FALSE, exc |-> None, msg |-> None, value |-> None,
     tout |-> <<>>, trajectories |-> <<>>, reads |-> <<>>]

\* an exception leaves run(): nothing catches it
Raise(exc, msg, reads) ==
    /\ pc' = "failed"
    /\ ret' = Raised(exc, msg, reads)

\* bounds of the solver process: the bytes it writes and what a pipe holds
MaxWrites == 3
PipeCap == 2

Streams == {"stdout", "stderr"}
Chars == {"x", "e", "\n"}

\* the writes of a solver process, in the order it makes them
Programs == UNION {[1..n -> Streams \X Chars] : n \in 0..MaxWrites}

\* what a process has written to a stream when it has run its program
RECURSIVE WrittenTo(_, _)
WrittenTo(program, stream) ==
    IF program = <<>> THEN <<>>
    ELSE (IF program[1][1] = stream THEN <<program[1][2]>> ELSE <<>>)
         \o WrittenTo(Tail(program), stream)

\* the OUTPUT directory a solver may leave: every file, all but the last, none
SolverOutDirs(s) ==
    {CompleteOutDir(s),
     [name \in {OutputName(s, n) : n \in 0..(NSims(s) - 2)} |->
        EntryOf(s, name, "file")],
     <<>>}

\* the instances run() is called on: one that runs, one whose reaction rate
\* names an expression, one whose memory_usage is no key of _memory_options
RunNetwork == Network(<<"A()", "B()">>, DefaultRxns(2), DefaultObs)

ExprNetwork ==
    Network(<<"A()", "B()">>,
            <<[reactants |-> <<1>>, products |-> <<0, 0>>,
               rate |-> <<N_expr, SpeciesSymbol(1)>>]>>, DefaultObs)

RunSims ==
    {[s EXCEPT !.verbose = v, !.cleanup = c] :
       s \in {SimOf(RunNetwork, MaxTspan, MaxSims, NoInt, TRUE),
              SimOf(ExprNetwork, MaxTspan, MaxSims, NoInt, TRUE),
              [SimOf(RunNetwork, MaxTspan, MaxSims, NoInt, TRUE)
                 EXCEPT !.opts.memory_usage = "fast"]},
       v \in BOOLEAN, c \in BOOLEAN}

SmallDevice == [MAX_SHARED_MEMORY_PER_BLOCK |-> 8, MAX_THREADS_PER_BLOCK |-> 1024]

Init ==
    /\ RunIdle
    /\ cupsoda_path = None /\ environ = None
    /\ \E k \in FileKinds :
          fs = [p \in BinPaths |-> IF p = JoinBin(bin_dirs[1]) THEN k ELSE "absent"]
    /\ explicit = None /\ lastCall = NoCall
    /\ self \in RunSims
    /\ use_pycuda \in BOOLEAN
    /\ device = IF use_pycuda THEN SmallDevice ELSE NoDevice
    /\ pd = FALSE
    /\ infiles = <<>> /\ outfiles = <<>>
    /\ ret = NoRun

\* tempfile.mkdtemp, then os.mkdir of INPUT and of OUTPUT
RunCreateDirs ==
    /\ pc = "configured"
    /\ outdir' = "exists"
    /\ infiles' = <<>> /\ outfiles' = <<>>
    /\ pc' = "dirs"
    /\ stages' = Append(stages, "mkdtemp")
    /\ UNCHANGED <<pathVars, self, globalVars, ret, locals, child, pipeVars>>

\* bin_path = _get_cupsoda_path()
RunGetCupsodaPath ==
    LET r == GetCupsodaPath(cupsoda_path, environ, fs) IN
    /\ pc = "dirs"
    /\ cupsoda_path' = r.cache
    /\ IF r.raised
       THEN /\ Raise(r.exc, r.msg, <<>>)
            /\ stages' = stages \o <<"_get_cupsoda_path", "raise">>
            /\ UNCHANGED locals
       ELSE /\ locals' = [locals EXCEPT !.bin_path = r.value]
            /\ pc' = "binary"
            /\ stages' = Append(stages, "_get_cupsoda_path")
            /\ UNCHANGED ret
    /\ UNCHANGED <<environ, fs, explicit, lastCall, self, globalVars, dirVars,
                   outdir, child, pipeVars>>

\* n_blocks = self._get_nblocks(self.gpu)
RunGetNblocks ==
    LET r == GetNblocks(self, use_pycuda, device) IN
    /\ pc = "binary"
    /\ IF r.raised
       THEN /\ Raise(r.exc, r.msg, <<>>)
            /\ stages' = stages \o <<"_get_nblocks", "raise">>
            /\ UNCHANGED locals
       ELSE /\ locals' = [locals EXCEPT !.n_blocks = r.value]
            /\ pc' = "inputs"
            /\ stages' = Append(stages, "_get_nblocks")
            /\ UNCHANGED ret
    /\ UNCHANGED <<pathVars, self, globalVars, dirVars, outdir, child, pipeVars>>

\* _create_input_files opens its next file and writes it.  c_matrix is
\* opened, then _get_cmatrix runs; cs_vector sets self._out_species first.
RunWriteInputFile ==
    LET name == NextInputFile
        cm == GetCmatrix(self) IN
    /\ pc = "inputs"
    /\ IF name = "c_matrix" /\ cm.raised
       THEN /\ infiles' = infiles @@ (name :> <<>>)
            /\ Raise(cm.exc, cm.msg, <<>>)
            /\ stages' = stages \o <<"open c_matrix", "_get_cmatrix", "raise">>
            /\ UNCHANGED self
       ELSE /\ infiles' = infiles @@ (name :> InputFileText(self, name))
            /\ self' = IF name = "cs_vector"
                       THEN [self EXCEPT !.out_species = OutSpecies(self)]
                       ELSE self
            /\ pc' = IF name = InputFileNames[Len(InputFileNames)]
                     THEN "command" ELSE "inputs"
            /\ stages' = IF name = "c_matrix"
                         THEN stages \o <<"open c_matrix", "_get_cmatrix">>
                         ELSE Append(stages, "open " \o name)
            /\ UNCHANGED ret
    /\ UNCHANGED <<pathVars, globalVars, outfiles, outdir, locals, child, pipeVars>>

\* command = [bin_path, ..., self._memory_usage, ...]
RunBuildCommand ==
    LET m == MemoryUsage(self) IN
    /\ pc = "command"
    /\ IF m.raised
       THEN /\ Raise(m.exc, m.msg, <<>>)
            /\ stages' = stages \o <<"command", "raise">>
       ELSE /\ pc' = "popen"
            /\ stages' = Append(stages, "command")
            /\ UNCHANGED ret
    /\ UNCHANGED <<pathVars, self, globalVars, dirVars, outdir, locals, child,
                   pipeVars>>

\* p = subprocess.Popen(command, stdout=PIPE, stderr=PIPE): the file at
\* bin_path is executed if it can be, and the process has its own program
RunPopen(program) ==
    /\ pc = "popen"
    /\ IF AccessX(fs, locals.bin_path) /\ IsFile(fs, locals.bin_path)
       THEN /\ child' = [state |-> "running", program |-> program,
                         todo |-> program, returncode |-> 0]
            /\ pc' = IF self.verbose THEN "readline" ELSE "communicate"
            /\ stages' = Append(stages, "Popen")
            /\ UNCHANGED ret
       ELSE /\ Raise("OSError", "[Errno 13] Permission denied", <<>>)
            /\ stages' = stages \o <<"Popen", "raise">>
            /\ UNCHANGED child
    /\ UNCHANGED <<pathVars, self, globalVars, dirVars, outdir, locals, pipeVars>>

\* the solver writes its next byte; it waits while that pipe is full
ChildWrite ==
    /\ child.state = "running" /\ child.todo # <<>>
    /\ LET stream == child.todo[1][1]
           ch == child.todo[1][2] IN
       IF stream = "stdout"
       THEN /\ Len(stdout_pipe) < PipeCap
            /\ stdout_pipe' = Append(stdout_pipe, ch)
            /\ UNCHANGED stderr_pipe
       ELSE /\ Len(stderr_pipe) < PipeCap
            /\ stderr_pipe' = Append(stderr_pipe, ch)
            /\ UNCHANGED stdout_pipe
    /\ child' = [child EXCEPT !.todo = Tail(@)]
    /\ UNCHANGED <<pathVars, simVars, pc, outdir, locals, stages, linebuf,
                   printed, p_out, p_err>>

\* the solver has written everything: it leaves its OUTPUT files and exits,
\* which closes its ends of the pipes
ChildExit(returncode, out) ==
    /\ child.state = "running" /\ child.todo = <<>>
    /\ child' = [child EXCEPT !.state = "exited", !.returncode = returncode]
    /\ outfiles' = out
    /\ UNCHANGED <<pathVars, self, globalVars, infiles, ret, pc, outdir, locals,
                   stages, pipeVars>>

\* for line in iter(p.stdout.readline, b''): print(line, end=""): the reader
\* takes the bytes of the pipe as they come, hands out a line at its
\* newline or at end of file, and the loop ends on the empty line
RunReadline ==
    /\ pc = "readline"
    /\ \/ /\ stdout_pipe # <<>>
          /\ stdout_pipe' = Tail(stdout_pipe)
          /\ IF Head(stdout_pipe) = "\n"
             THEN /\ printed' = Append(printed, Append(linebuf, "\n"))
                  /\ linebuf' = <<>>
             ELSE /\ linebuf' = Append(linebuf, Head(stdout_pipe))
                  /\ UNCHANGED printed
          /\ UNCHANGED pc
       \/ /\ stdout_pipe = <<>> /\ child.state = "exited"
          /\ IF linebuf # <<>>
             THEN /\ printed' = Append(printed, linebuf)
                  /\ linebuf' = <<>>
                  /\ UNCHANGED pc
             ELSE /\ pc' = "communicate"
                  /\ UNCHANGED <<printed, linebuf>>
          /\ UNCHANGED stdout_pipe
    /\ UNCHANGED <<pathVars, simVars, outdir, locals, child, stderr_pipe,
                   p_out, p_err, stages>>

\* (p_out, p_err) = p.communicate(): both pipes are read to end of file
\* and the process is waited for
RunCommunicate ==
    /\ pc = "communicate"
    /\ \/ /\ stdout_pipe # <<>>
          /\ p_out' = Append(p_out, Head(stdout_pipe))
          /\ stdout_pipe' = Tail(stdout_pipe)
          /\ UNCHANGED <<pc, p_err, stderr_pipe, stages>>
       \/ /\ stderr_pipe # <<>>
          /\ p_err' = Append(p_err, Head(stderr_pipe))
          /\ stderr_pipe' = Tail(stderr_pipe)
          /\ UNCHANGED <<pc, p_out, stdout_pipe, stages>>
       \/ /\ stdout_pipe = <<>> /\ stderr_pipe = <<>>
          /\ child.state = "exited"
          /\ pc' = "returncode"
          /\ stages' = Append(stages, "communicate")
          /\ UNCHANGED <<p_out, p_err, stdout_pipe, stderr_pipe>>
    /\ UNCHANGED <<pathVars, simVars, outdir, locals, child, linebuf, printed>>

\* a check of the exit code that lets every code pass
RunIgnoreReturncode ==
    /\ pc = "returncode"
    /\ pc' = "load"
    /\ UNCHANGED <<ret, stages>>
    /\ UNCHANGED <<pathVars, self, globalVars, dirVars, outdir, locals, child,
                   pipeVars>>

\* if p.returncode: raise SimulatorException(...)
RunCheckReturncode ==
    /\ pc = "returncode"
    /\ IF child.returncode # 0
       THEN /\ Raise("SimulatorException", ErrorMessage(p_out, p_err), <<>>)
            /\ stages' = Append(stages, "raise")
       ELSE /\ pc' = "load"
            /\ UNCHANGED <<ret, stages>>
    /\ UNCHANGED <<pathVars, self, globalVars, dirVars, outdir, locals, child,
                   pipeVars>>

\* self.tout, trajectories = self._load_trajectories(...)
RunLoadTrajectories ==
    LET r == LoadTrajectories(self, outfiles, pd) IN
    /\ pc = "load"
    /\ IF r.raised
       THEN /\ Raise(r.exc, r.msg, r.reads)
            /\ stages' = stages \o <<"_load_trajectories", "raise">>
       ELSE /\ ret' = [Returned(r) EXCEPT !.value = None]
            /\ pc' = "loaded"
            /\ stages' = Append(stages, "_load_trajectories")
    /\ UNCHANGED <<pathVars, self, globalVars, dirVars, outdir, locals, child,
                   pipeVars>>

\* if self._cleanup: shutil.rmtree(self.outdir); return SimulationResult(...)
RunReturn ==
    /\ pc = "loaded"
    /\ IF self.cleanup
       THEN /\ outdir' = "removed"
            /\ infiles' = <<>> /\ outfiles' = <<>>
            /\ stages' = stages \o <<"rmtree", "return">>
       ELSE /\ stages' = Append(stages, "return")
            /\ UNCHANGED <<outdir, dirVars>>
    /\ ret' = [ret EXCEPT !.value = "SimulationResult"]
    /\ pc' = "done"
    /\ UNCHANGED <<pathVars, self, globalVars, locals, child, pipeVars>>

ReturnCodes == {0, 1}

Next ==
    \/ RunCreateDirs
    \/ RunGetCupsodaPath
    \/ RunGetNblocks
    \/ RunWriteInputFile
    \/ RunBuildCommand
    \/ \E program \in Programs : RunPopen(program)
    \/ ChildWrite
    \/ \E returncode \in ReturnCodes, out \in SolverOutDirs(self) :
          ChildExit(returncode, out)
    \/ RunReadline
    \/ RunCommunicate
    \/ RunCheckReturncode
    \/ RunLoadTrajectories
    \/ RunReturn

Spec == Init /\ [][Next]_vars

\* the files run() has written when the command is built are those
\* _create_input_files leaves
InputFilesAsCreated ==
    pc = "command" =>
        infiles = CreateInputFiles([self EXCEPT !.out_species = NoOutSpecies]).files

(***************************************************************************)
(* Claims about run                                                        *)
(***************************************************************************)

RunEnded == pc \in {"done", "failed"}

\* C1: when run() is called with cleanup enabled, the working directory that
\* run created no longer exists once run() has ended, whether it returned a
\* result or failed at any step after the directory was created.
\* Violated: shutil.rmtree is reached on the returning path only.
C1_CleanupOnEveryExit ==
    (RunEnded /\ self.cleanup /\ outdir # "none") => outdir = "removed"

\* text holds part as a run of consecutive characters
Contains(text, part) ==
    \E i \in 0..(Len(text) - Len(part)) :
        SubSeq(text, i + 1, i + Len(part)) = part

\* C5: when the solver process has exited with a non-zero code, run() ends
\* by raising SimulatorException whose message holds the text the solver
\* wrote to standard output and the text it wrote to standard error (each up
\* to trailing whitespace), in verbose and in non-verbose mode, no output
\* file has been read and no SimulationResult is returned.
\* Violated: the verbose loop has consumed standard output before
\* communicate() reads it, and rstrip("at line") strips characters.
C5_ErrorCarriesOutput ==
    (RunEnded /\ child.state = "exited" /\ child.returncode # 0) =>
        /\ ret.raised /\ ret.exc = "SimulatorException"
        /\ Contains(ret.msg, Rstrip(WrittenTo(child.program, "stdout"), Whitespace))
        /\ Contains(ret.msg, Rstrip(WrittenTo(child.program, "stderr"), Whitespace))
        /\ ret.reads = <<>>
        /\ ret.value = None

(***************************************************************************)
(* The rescale of MX_0 followed by the rescale of the loaded trajectories  *)
(***************************************************************************)

\* bounds of the initial values
MaxInitial == 2

\* the positive volumes
PositiveVols == {Int1(1), Int1(2)}

\* the initial-value matrices of n simulations of k species: every first
\* row, each later row one more than the row before it
InitialMatrices(n, k) ==
    {[i \in 1..n |-> [j \in 1..k |-> r[j] + (i - 1)]] : r \in [1..k -> 0..MaxInitial]}

\* the instances: every species list, the source pseudo-species among them,
\* every positive volume and initial-value matrix, all species selected
RoundTripSims ==
    UNION {{[SimOf(Network(q[2], DefaultRxns(Len(q[2])), DefaultObs),
                   1, q[1], v, FALSE) EXCEPT !.initials = x] :
              v \in PositiveVols, x \in InitialMatrices(q[1], Len(q[2]))} :
           q \in (1..MaxSims) \X SpeciesLists}

\* a solver that has not moved the system writes the values it was given
AsRead(mx0) ==
    [i \in DOMAIN mx0 |-> [j \in DOMAIN mx0[i] |-> Val(mx0[i][j].c, mx0[i][j].e)]]

InitRoundTrip ==
    /\ PathIdle /\ RunIdle
    /\ self \in RoundTripSims
    /\ use_pycuda = FALSE /\ device = NoDevice /\ pd = FALSE
    /\ infiles = <<>> /\ outfiles = <<>>
    /\ ret = [op |-> None, value |-> <<>>]

\* _create_input_files computes mx0 and selects the output species
CallEncode ==
    /\ ret.op = None
    /\ self' = [self EXCEPT !.out_species = OutSpecies(self)]
    /\ ret' = [op |-> "encode", value |-> Mx0(self)]
    /\ UNCHANGED <<globalVars, dirVars, pathVars, runVars>>

\* _load_trajectories applies the volume correction to the values as read
CallDecode ==
    /\ ret.op = "encode"
    /\ ret' = [op |-> "decode",
               value |-> IF Truthy(self.vol)
                         THEN VolumeCorrect(AsRead(ret.value), self.out_species)
                         ELSE AsRead(ret.value)]
    /\ UNCHANGED <<self, globalVars, dirVars, pathVars, runVars>>

NextRoundTrip == CallEncode \/ CallDecode

SpecRoundTrip == InitRoundTrip /\ [][NextRoundTrip]_vars

\* the cell c * (N_A * vol) ^ e is the number x
IsNumberX(cell, x) ==
    ~cell.nan /\ ((cell.e = 0 /\ cell.c = x) \/ (cell.c = 0 /\ x = 0))

\* the 1-based column of the first source pseudo-species, or 0
SourceColumn(s) ==
    IF \E j \in 1..LenSpecies(s) : s.model.species[j] = "__source()"
    THEN CHOOSE j \in 1..LenSpecies(s) :
             /\ s.model.species[j] = "__source()"
             /\ \A k \in 1..(j - 1) : s.model.species[k] # "__source()"
    ELSE 0

\* C11 as stated: for every volume v > 0 and every initial-value matrix x,
\* encoding then decoding with the same v returns x in every species
\* column, the column of the source pseudo-species included.
C11_RoundTripEveryColumn ==
    ret.op = "decode" =>
        \A i \in DOMAIN self.initials, j \in 1..LenSpecies(self) :
            IsNumberX(ret.value[i][j], self.initials[i][j])

\* C11 as amended: encoding then decoding with the same v > 0 returns x in
\* every species column but that of the source pseudo-species, where
\* encoding writes 1 and decoding returns N_A * v.
C11_RoundTripButSource ==
    ret.op = "decode" =>
        \A i \in DOMAIN self.initials, j \in 1..LenSpecies(self) :
            IF j = SourceColumn(self)
            THEN ret.value[i][j] = Val(1, 1)
            ELSE IsNumberX(ret.value[i][j], self.initials[i][j])

\* C11 witness: a decoded matrix of two species, the second the source
\* pseudo-species, with initial values 2 and 1 in the first row
C11_Witness ==
    /\ ret.op = "decode"
    /\ self.model.species = <<"A()", "__source()">>
    /\ self.initials[1] = <<2, 1>>
    /\ self.vol = Int1(2)
    /\ ret.value[1] = <<Val(2, 0), Val(1, 1)>>

(***************************************************************************)
(* CupSodaSimulator.__init__                                               *)
(***************************************************************************)

\* CupSodaSimulator.default_integrator_options
default_integrator_options == ("cupsoda" :> DefaultOpts)

\* the names the module and __init__ bind: integrator is not among them
NamesInScope == {"self", "model", "tspan", "initials", "param_values", "verbose", "kwargs", "options"}

\* kwargs.get(key, default) of a keyword that may be absent (None)
KwargsGet(value, default) == IF value = None THEN default ELSE value

\* a dictionary of no entry
EmptyOptions == [k \in {} |-> 0]

\* bounds of the keyword arguments
IntegratorChoices == {None, "cupsoda", "lsoda", "vode"}
IntegratorOptionsChoices == {EmptyOptions, [max_steps |-> 100], [n_blocks |-> Int1(3)]}

KwargsChoices ==
    [integrator : IntegratorChoices, integrator_options : IntegratorOptionsChoices,
     vol : VolChoices, obs_species_only : BOOLEAN, cleanup : BOOLEAN,
     verbose : BOOLEAN]

\* d.update(e)
Update(d, e) == e @@ d

\* __init__(model, ..., **kwargs): the instance it leaves, or what it raises.
\* The message of the SimulatorException is built from the name integrator,
\* which nothing binds.
Construct(model, tspan, initials, param_values, kwargs) ==
    LET integrator == KwargsGet(kwargs.integrator, "cupsoda")
        known == integrator \in DOMAIN default_integrator_options
                 /\ DOMAIN default_integrator_options[integrator] # {} IN
    IF known
    THEN [op |-> "__init__", arg |-> kwargs, raised |-> FALSE, exc |-> None,
          msg |-> None,
          instance |-> Sim(model, tspan, initials, param_values, kwargs.verbose,
                           kwargs.vol, kwargs.obs_species_only, kwargs.cleanup,
                           Update(default_integrator_options[integrator],
                                  kwargs.integrator_options))]
    ELSE IF "integrator" \in NamesInScope
    THEN [op |-> "__init__", arg |-> kwargs, raised |-> TRUE,
          exc |-> "SimulatorException",
          msg |-> "Integrator type '" \o integrator \o "' not recognized.",
          instance |-> None]
    ELSE [op |-> "__init__", arg |-> kwargs, raised |-> TRUE,
          exc |-> "NameError",
          msg |-> "global name 'integrator' is not defined",
          instance |-> None]

\* before construction there is no instance
InitConstruct ==
    /\ PathIdle /\ RunIdle
    /\ self = None
    /\ use_pycuda = FALSE /\ device = NoDevice /\ pd = FALSE
    /\ infiles = <<>> /\ outfiles = <<>>
    /\ ret = NoRet

\* a caller constructs CupSodaSimulator(model, tspan, initials, param_values,
\* **kwargs)
CallConstruct(kwargs) ==
    LET net == Network(<<"A()", "B()">>, DefaultRxns(2), DefaultObs)
        r == Construct(net, <<0, 1>>, <<InitialsRow(1, 2)>>, <<ParamRow(1)>>,
                       kwargs) IN
    /\ ret.op = None
    /\ self' = r.instance
    /\ ret' = r
    /\ UNCHANGED <<globalVars, dirVars, pathVars, runVars>>

NextConstruct == \E kwargs \in KwargsChoices : CallConstruct(kwargs)

SpecConstruct == InitConstruct /\ [][NextConstruct]_vars

\* C12: constructing the simulator with an integrator name that has no
\* entry in default_integrator_options raises SimulatorException with a
\* message that names the integrator, and no other kind of error.
\* Violated: the raise statement reads the unbound name integrator.
C12_UnknownIntegratorError ==
    (/\ ret.op = "__init__"
     /\ ret.arg.integrator # None
     /\ ret.arg.integrator \notin DOMAIN default_integrator_options) =>
        /\ ret.raised
        /\ ret.exc = "SimulatorException"
        /\ ret.msg = "Integrator type '" \o ret.arg.integrator \o "' not recognized."

(***************************************************************************)
(* _get_cmatrix on its own                                                 *)
(***************************************************************************)

\* the instances: every species list and list of reactions, every number
\* of simulations and every volume
CmatrixSims ==
    {SimOf(net, 1, n, v, TRUE) :
       net \in EncodingNetworks, n \in 1..MaxSims, v \in VolChoices}

InitCmatrix ==
    /\ PathIdle /\ RunIdle
    /\ self \in CmatrixSims
    /\ use_pycuda = FALSE /\ device = NoDevice /\ pd = FALSE
    /\ infiles = <<>> /\ outfiles = <<>>
    /\ ret = NoRet

\* a caller calls self._get_cmatrix()
CallGetCmatrix ==
    LET r == GetCmatrix(self) IN
    /\ ret.op = None
    /\ ret' = [op |-> "_get_cmatrix", raised |-> r.raised, exc |-> r.exc,
               msg |-> r.msg, value |-> r.c_matrix]
    /\ UNCHANGED <<self, globalVars, dirVars, pathVars, runVars>>

NextCmatrix == CallGetCmatrix

SpecCmatrix == InitCmatrix /\ [][NextCmatrix]_vars

\* the argument is the symbol of a species population: __s and an index
IsSpeciesPlaceholder(arg) ==
    /\ Len(arg) = 4
    /\ SubSeq(arg, 1, 3) = <<"_", "_", "s">>
    /\ arg[4] \in DigitChars

\* what the argument contributes in simulation row i: the value of the
\* parameter it names, its literal value, or nothing
Contribution(s, i, arg) ==
    IF \E k \in DOMAIN s.model.parameters : s.model.parameters[k] = arg
    THEN s.param_values[i][CHOOSE k \in DOMAIN s.model.parameters :
                                s.model.parameters[k] = arg]
    ELSE IF IsNumber(arg) THEN FloatOf(arg)
    ELSE 1

\* the product of the contributions of the arguments from the k-th on that
\* are no species placeholders
RECURSIVE ProductOfArgs(_, _, _, _)
ProductOfArgs(s, i, args, k) ==
    IF k > Len(args) THEN 1
    ELSE (IF IsSpeciesPlaceholder(args[k]) THEN 1 ELSE Contribution(s, i, args[k]))
         * ProductOfArgs(s, i, args, k + 1)

\* C13: with no volume configured, cell [i][j] of the matrix _get_cmatrix
\* returns is the product over the arguments of the rate expression of
\* reaction j that are no species placeholders, each rate parameter
\* contributing its value in row i whatever its name, each other argument
\* its literal value.
\* Violated: the pattern "_*s" also drops every parameter whose name begins
\* with s.
C13_RateIsProductOfArgs ==
    (ret.op = "_get_cmatrix" /\ ~ret.raised /\ ~Truthy(self.vol)) =>
        \A i \in DOMAIN self.param_values, j \in DOMAIN self.model.reactions :
            ret.value[i][j] =
                Num(ProductOfArgs(self, i, self.model.reactions[j].rate, 1), 0)

(***************************************************************************)
(* Claims about the order of the steps of run                              *)
(***************************************************************************)

\* the step is in the history of this run
Has(step) == \E k \in DOMAIN stages : stages[k] = step

\* step b is taken only after step a
Before(a, b) ==
    \A j \in DOMAIN stages :
        stages[j] = b => \E i \in 1..(j - 1) : stages[i] = a

InputNames == {InputFileNames[k] : k \in DOMAIN InputFileNames}

\* the solver is started only after all eleven input files are written
SolverAfterInputs ==
    /\ Cardinality(InputNames) = 11
    /\ \A name \in InputNames : Before("open " \o name, "Popen")
    /\ child.state # "none" /\ outdir = "exists" => DOMAIN infiles = InputNames

\* outputs are loaded only after the solver exited with code zero
LoadAfterCleanExit ==
    /\ Before("communicate", "_load_trajectories")
    /\ Has("_load_trajectories") =>
           child.state = "exited" /\ child.returncode = 0

\* after the first failing step no later step is taken
NothingAfterFailure ==
    /\ \A k \in DOMAIN stages : stages[k] = "raise" => k = Len(stages)
    /\ Has("raise") <=> pc = "failed"

\* directories, rate matrix, solver, load, cleanup, return, in that order
CoarseOrder ==
    /\ Before("mkdtemp", "_get_cmatrix")
    /\ Before("_get_cmatrix", "Popen")
    /\ Before("Popen", "_load_trajectories")
    /\ Before("_load_trajectories", "rmtree")
    /\ Before("_load_trajectories", "return")
    /\ Has("rmtree") => stages[Len(stages)] = "return"

\* C14 as stated: a run passes through directories created, rate matrix
\* compiled, input files written, solver running, outputs loaded, (cleaned
\* up), done in that order: no input file is written before the rate matrix
\* has been compiled, the solver is started only after all eleven input
\* files are written, outputs are loaded only after the solver exited with
\* code zero, and after the first failing step no later step is taken.
C14_StagesInOrder ==
    /\ CoarseOrder
    /\ ~Has("_get_cmatrix") => infiles = <<>>
    /\ SolverAfterInputs
    /\ LoadAfterCleanExit
    /\ NothingAfterFailure

\* C14 as amended: the same, except that atol_vector is written (and
\* c_matrix opened) before the rate matrix is compiled; every other input
\* file is written after it.
C14_StagesInOrderButAtol ==
    /\ CoarseOrder
    /\ ~Has("_get_cmatrix") => DOMAIN infiles \subseteq {"atol_vector"}
    /\ \A name \in InputNames \ {"atol_vector", "c_matrix"} :
           Before("_get_cmatrix", "open " \o name)
    /\ Has("_get_cmatrix") /\ outdir = "exists" =>
           /\ {"atol_vector", "c_matrix"} \subseteq DOMAIN infiles
           /\ infiles["atol_vector"] # <<>>
    /\ SolverAfterInputs
    /\ LoadAfterCleanExit
    /\ NothingAfterFailure

\* C14 witness: a run with cleanup that went through every step and returned
C14_Witness ==
    /\ pc = "done" /\ self.cleanup /\ outdir = "removed"
    /\ Has("_get_cmatrix") /\ Has("Popen") /\ Has("_load_trajectories")
    /\ Has("rmtree")
    /\ child.returncode = 0

(***************************************************************************)
(* run with a parent and a solver process that keep running               *)
(***************************************************************************)

\* the steps of the thread that called run()
Parent ==
    \/ RunCreateDirs
    \/ RunGetCupsodaPath
    \/ RunGetNblocks
    \/ RunWriteInputFile
    \/ RunBuildCommand
    \/ \E program \in Programs : RunPopen(program)
    \/ RunReadline
    \/ RunCommunicate
    \/ RunCheckReturncode
    \/ RunLoadTrajectories
    \/ RunReturn

\* the steps of the solver process
Child ==
    \/ ChildWrite
    \/ \E returncode \in ReturnCodes, out \in SolverOutDirs(self) :
          ChildExit(returncode, out)

\* the calling thread runs whenever it is not blocked in a read or a wait;
\* the solver writes and exits whenever its write is not blocked
FairSpec == Init /\ [][Parent \/ Child]_vars /\ WF_vars(Parent) /\ WF_vars(Child)

\* the parent waits for end of file on standard output while the solver
\* waits to write to a full standard-error pipe
ReadlineDeadlock ==
    /\ pc = "readline" /\ stdout_pipe = <<>>
    /\ child.state = "running" /\ child.todo # <<>>
    /\ child.todo[1][1] = "stderr" /\ Len(stderr_pipe) = PipeCap

\* C15: if the solver writes a finite amount to standard output and to
\* standard error and then exits whenever its writes are not blocked, run()
\* eventually gets past the wait for the process, in verbose and in
\* non-verbose mode, whatever the amounts and the capacity of the pipes.
\* Violated: in verbose mode nothing reads standard error while the
\* readline loop waits, so ReadlineDeadlock is reached and never left.
C15_GetsPastWait ==
    (child.state = "running") ~> (pc \notin {"readline", "communicate"})

====
